---- MODULE Spec2Model ----
(***************************************************************************)
(* A model of pkg/services/options.go of golang-oci-mirror.                *)
(*                                                                         *)
(* Two independent components share the options aggregate:                 *)
(*   - the signal-to-cancellation bridge (MirrorOptions.CancelContext,     *)
(*     MirrorOptions.init, makeCancelCh), modelled by the actions of       *)
(*     CancelNext;                                                         *)
(*   - the logging lifecycle (RootOptions.LogfilePreRun / LogfilePostRun), *)
(*     modelled by the actions of LogNext.                                 *)
(* Neither reads or writes the other's state, so each is checked under a   *)
(* specification of its own (CancelSpec, CancelFairSpec, LogSpec).         *)
(***************************************************************************)
EXTENDS Integers, Sequences, FiniteSets, TLC

VARIABLES
    \* ---- MirrorOptions (one entry per instance) ----
    cancelCh,     \* o.cancelCh: 0 is the nil channel, else the bridge it names
    onceDone,     \* o.once: the done flag of sync.Once
    onceMu,       \* o.once: the mutex of sync.Once, 0 free, else the holding call
    \* ---- one CancelContext invocation (a "call"), and the context it derives
    pc,           \* position of the calling goroutine inside CancelContext
    opt,          \* the MirrorOptions the call is made on (0 before the call)
    ctx,          \* the derived context: "none" before context.WithCancel,
                  \* "active", or done: "cancel" (by the returned cancel
                  \* function called by the caller), "parent" (by the parent's
                  \* cancellation), "signal" (by the watcher's cancel())
    wpc,          \* the watcher goroutine: "none", "start", "select", and
                  \* returned by "cancelArm" or by "doneArm"
    wch,          \* the channel the watcher's select evaluated o.cancelCh to
    \* ---- the parent context the callers pass ----
    parentDone,   \* the parent context has been cancelled
    \* ---- bridges: the state makeCancelCh creates; bridge b is made by call b
    lpc,          \* listener goroutine: "off" (not created), "recv", "send"
    sigBuf,       \* number of signals buffered in signalCh
    \* ---- history ----
    hist,         \* whether the history below is recorded (fixed by Init)
    sigAfter,     \* a watched signal was received after ctx was derived and
                  \* before its watcher returned
    events,       \* per call, the number of bridge events its watcher received
    relayed,      \* a signal that is not watched was put into some signalCh
    arrived       \* per bridge, the number of watched signals the process
                  \* received after signal.Notify registered the bridge
                  \* (MaxArrivals stands for that many or more)

VARIABLES
    \* ---- RootOptions ----
    LogLevel,        \* o.LogLevel, the verbosity
    In, Out, ErrOut, \* o.IOStreams; a writer is the sequence of the sinks
                     \* a write to it goes to, in order
    logfileCleanup,  \* o.logfileCleanup: 0 is nil, else the closure made by
                     \* the setup that opened log file handle h
    \* ---- the process ----
    fileState,       \* the handles os.OpenFile returned: "unopened", "open",
                     \* "closed"
    klog,            \* klog's flags and its output writer
    logrus,          \* logrus' output, level and hooks
    fileHook,        \* per handle, the file hook of setupFileHook: "none",
                     \* "installed", "disposed"
    fatal,           \* "" while the process runs, else why klog.Fatal ended it
    \* ---- history ----
    closeCalls,      \* per handle, the number of calls of logFile.Close()
    pre,             \* o.IOStreams as the last successful setup found it
    cleanupLog,      \* the steps of the last run of a cleanup closure, in
                     \* order, each with whether its log file was open then
    last             \* the last operation, and for an emitted line the sinks
                     \* it was appended to

logVars == <<LogLevel, In, Out, ErrOut, logfileCleanup, fileState, klog, logrus,
             fileHook, fatal, closeCalls, pre, cleanupLog, last>>

cancelVars == <<cancelCh, onceDone, onceMu, pc, opt, ctx, wpc, wch, parentDone,
                lpc, sigBuf, hist, sigAfter, events, relayed, arrived>>

vars == <<cancelVars, logVars>>

\* ---- bounds ----
NumOpts  == 2      \* MirrorOptions instances in the process
MaxCalls == 2      \* invocations of CancelContext

MaxArrivals == 3   \* arrivals of watched signals counted per bridge

Opts  == 1..NumOpts
Calls == 1..MaxCalls

\* ---- program constants ----
SignalChCap == 1     \* make(chan os.Signal, 1)

WatchedSignals == {"SIGINT", "SIGTERM"}
Signals        == WatchedSignals \cup {"SIGHUP"}

Min(a, b) == IF a < b THEN a ELSE b

derived(c) == ctx[c] # "none"
ctxDone(c) == ctx[c] \in {"cancel", "parent", "signal"}

CancelInit ==
    /\ cancelCh   = [o \in Opts |-> 0]
    /\ onceDone   = [o \in Opts |-> FALSE]
    /\ onceMu     = [o \in Opts |-> 0]
    /\ pc         = [c \in Calls |-> "idle"]
    /\ opt        = [c \in Calls |-> 0]
    /\ ctx        = [c \in Calls |-> "none"]
    /\ wpc        = [c \in Calls |-> "none"]
    /\ wch        = [c \in Calls |-> 0]
    /\ parentDone = FALSE
    /\ lpc        = [b \in Calls |-> "off"]
    /\ sigBuf     = [b \in Calls |-> 0]
    /\ sigAfter   = [c \in Calls |-> FALSE]
    /\ events     = [c \in Calls |-> 0]
    /\ relayed    = FALSE
    /\ arrived    = [b \in Calls |-> 0]

\* Calls and MirrorOptions instances are interchangeable: they are numbered in
\* the order in which the program first uses them.
OptUsed(o) == \E c \in Calls : opt[c] = o
NextCall(c) == IF c = 1 THEN TRUE ELSE pc[c - 1] # "idle"
NextOpt(o) == \A x \in Opts : x < o => OptUsed(x)

\* A goroutine calls o.CancelContext(parent).
CancelContext(c, o) ==
    /\ pc[c] = "idle"
    /\ NextCall(c) /\ NextOpt(o)
    /\ pc'  = [pc EXCEPT ![c] = "once"]
    /\ opt' = [opt EXCEPT ![c] = o]
    /\ UNCHANGED logVars
    /\ UNCHANGED <<cancelCh, onceDone, onceMu, ctx, wpc, wch, parentDone, lpc,
                   sigBuf, hist, sigAfter, events, relayed, arrived>>

\* Faulty variant: a plain flag in place of sync.Once: no mutex between the test of
\* the flag and the call of o.init.
OnceDoPlainFlag(c) ==
    /\ pc[c] = "once"
    /\ pc' = [pc EXCEPT ![c] = IF onceDone[opt[c]] THEN "derive" ELSE "init"]
    /\ UNCHANGED logVars
    /\ UNCHANGED <<cancelCh, onceDone, onceMu, opt, ctx, wpc, wch, parentDone, lpc,
                   sigBuf, hist, sigAfter, events, relayed, arrived>>

\* o.once.Do(o.init) as sync.Once runs it: a call that finds the done flag set
\* returns at once; otherwise it takes the mutex of the Once (waiting while
\* another call holds it) and, the flag still being unset, goes on to run
\* o.init. A call that waited finds the flag set when the mutex is released.
OnceDo(c) ==
    /\ pc[c] = "once"
    /\ IF onceDone[opt[c]]
         THEN /\ pc' = [pc EXCEPT ![c] = "derive"]
              /\ UNCHANGED onceMu
         ELSE /\ onceMu[opt[c]] = 0
              /\ onceMu' = [onceMu EXCEPT ![opt[c]] = c]
              /\ pc' = [pc EXCEPT ![c] = "init"]
    /\ UNCHANGED logVars
    /\ UNCHANGED <<cancelCh, onceDone, opt, ctx, wpc, wch, parentDone, lpc,
                   sigBuf, hist, sigAfter, events, relayed, arrived>>

\* Faulty variant: o.init runs on every call: the done flag is never stored.
makeCancelChEveryCall(c) ==
    /\ pc[c] = "init"
    /\ lpc' = [lpc EXCEPT ![c] = "recv"]
    /\ sigBuf' = [sigBuf EXCEPT ![c] = 0]
    /\ cancelCh' = [cancelCh EXCEPT ![opt[c]] = c]
    /\ onceMu' = [onceMu EXCEPT ![opt[c]] = 0]
    /\ pc' = [pc EXCEPT ![c] = "derive"]
    /\ UNCHANGED logVars
    /\ UNCHANGED <<onceDone, opt, ctx, wpc, wch, parentDone, hist, sigAfter, events, relayed, arrived>>

\* o.init: o.cancelCh = makeCancelCh(SIGINT, SIGTERM), then Once stores its
\* flag and releases its mutex. makeCancelCh makes the two channels, registers
\* signalCh with signal.Notify and starts the listener goroutine; the bridge
\* made by call c is bridge c.
makeCancelCh(c) ==
    /\ pc[c] = "init"
    /\ lpc' = [lpc EXCEPT ![c] = "recv"]
    /\ sigBuf' = [sigBuf EXCEPT ![c] = 0]
    /\ cancelCh' = [cancelCh EXCEPT ![opt[c]] = c]
    /\ onceDone' = [onceDone EXCEPT ![opt[c]] = TRUE]
    /\ onceMu' = [onceMu EXCEPT ![opt[c]] = 0]
    /\ pc' = [pc EXCEPT ![c] = "derive"]
    /\ UNCHANGED logVars
    /\ UNCHANGED <<opt, ctx, wpc, wch, parentDone, hist, sigAfter, events, relayed, arrived>>

\* context.WithCancel(parent): the child of an already cancelled parent is
\* done at once.
WithCancel(c) == IF parentDone THEN "parent" ELSE "active"

\* ctx, cancel := context.WithCancel(parent); go func() {...}(); return
Derive(c) ==
    /\ pc[c] = "derive"
    /\ ctx' = [ctx EXCEPT ![c] = WithCancel(c)]
    /\ wpc' = [wpc EXCEPT ![c] = "start"]
    /\ pc' = [pc EXCEPT ![c] = "ret"]
    /\ UNCHANGED logVars
    /\ UNCHANGED <<cancelCh, onceDone, onceMu, opt, wch, parentDone, lpc, sigBuf,
                   hist, sigAfter, events, relayed, arrived>>

\* The caller invokes the cancel function CancelContext returned (on a context
\* that is done already the call changes nothing).
CallerCancel(c) ==
    /\ pc[c] = "ret"
    /\ ctx[c] = "active"
    /\ ctx' = [ctx EXCEPT ![c] = "cancel"]
    /\ UNCHANGED logVars
    /\ UNCHANGED <<cancelCh, onceDone, onceMu, pc, opt, wpc, wch, parentDone, lpc,
                   sigBuf, hist, sigAfter, events, relayed, arrived>>

\* Faulty variant: the derived context is not linked to its parent.
ChildrenUnlinked == {}

\* The contexts a cancellation of the parent reaches: the children WithCancel
\* linked to it that are not done yet.
Children == {c \in Calls : ctx[c] = "active"}

\* The owner of the parent context cancels it; its children are cancelled
\* with it.
ParentCancel ==
    /\ ~parentDone
    /\ parentDone' = TRUE
    /\ ctx' = [c \in Calls |-> IF c \in Children THEN "parent" ELSE ctx[c]]
    /\ UNCHANGED logVars
    /\ UNCHANGED <<cancelCh, onceDone, onceMu, pc, opt, wpc, wch, lpc, sigBuf,
                   hist, sigAfter, events, relayed, arrived>>

\* The watcher goroutine enters its select: o.cancelCh is evaluated once.
WatcherSelect(c) ==
    /\ wpc[c] = "start"
    /\ wch' = [wch EXCEPT ![c] = cancelCh[opt[c]]]
    /\ wpc' = [wpc EXCEPT ![c] = "select"]
    /\ UNCHANGED logVars
    /\ UNCHANGED <<cancelCh, onceDone, onceMu, pc, opt, ctx, parentDone, lpc,
                   sigBuf, hist, sigAfter, events, relayed, arrived>>

\* case <-o.cancelCh: cancel(). The receive is a rendezvous with the send
\* of the listener on the unbuffered resultCh; a nil channel is never ready.
\* cancel() on a context that is done already changes nothing.
WatcherCancelArm(c) ==
    /\ wpc[c] = "select"
    /\ wch[c] # 0
    /\ lpc[wch[c]] = "send"
    /\ lpc' = [lpc EXCEPT ![wch[c]] = "recv"]
    /\ ctx' = [ctx EXCEPT ![c] = IF ctx[c] = "active" THEN "signal" ELSE ctx[c]]
    /\ wpc' = [wpc EXCEPT ![c] = "cancelArm"]
    /\ events' = [events EXCEPT ![c] = events[c] + 1]
    /\ UNCHANGED logVars
    /\ UNCHANGED <<cancelCh, onceDone, onceMu, pc, opt, wch, parentDone, sigBuf,
                   hist, sigAfter, relayed, arrived>>

\* Faulty variant: a watcher whose select has no case for ctx.Done().
WatcherWithoutDoneArm(c) ==
    /\ FALSE
    /\ UNCHANGED vars

\* case <-ctx.Done(): the watcher returns.
WatcherDoneArm(c) ==
    /\ wpc[c] = "select"
    /\ ctxDone(c)
    /\ wpc' = [wpc EXCEPT ![c] = "doneArm"]
    /\ UNCHANGED logVars
    /\ UNCHANGED <<cancelCh, onceDone, onceMu, pc, opt, ctx, wch, parentDone, lpc,
                   sigBuf, hist, sigAfter, events, relayed, arrived>>

\* The listener goroutine of bridge b: <-signalCh
ListenerRecv(b) ==
    /\ lpc[b] = "recv"
    /\ sigBuf[b] > 0
    /\ sigBuf' = [sigBuf EXCEPT ![b] = sigBuf[b] - 1]
    /\ lpc' = [lpc EXCEPT ![b] = "send"]
    /\ UNCHANGED logVars
    /\ UNCHANGED <<cancelCh, onceDone, onceMu, pc, opt, ctx, wpc, wch, parentDone,
                   hist, sigAfter, events, relayed, arrived>>

\* Faulty variant: signal.Notify(signalCh), which relays every signal.
NotifyEverySignal(b, s) ==
    IF lpc[b] # "off"
      THEN Min(sigBuf[b] + 1, SignalChCap)
      ELSE sigBuf[b]

\* What signal.Notify(signalCh, SIGINT, SIGTERM) makes of a signal s for a
\* bridge: a watched signal is sent to signalCh without blocking, so it is
\* dropped when the buffer is full; any other signal is not relayed.
Notify(b, s) ==
    IF lpc[b] # "off" /\ s \in WatchedSignals
      THEN Min(sigBuf[b] + 1, SignalChCap)
      ELSE sigBuf[b]

WatcherReturned(c) == wpc[c] \in {"cancelArm", "doneArm"}

\* The process receives signal s.
Signal(s) ==
    /\ sigBuf' = [b \in Calls |-> Notify(b, s)]
    /\ sigAfter' = [c \in Calls |->
          sigAfter[c] \/ (hist /\ derived(c) /\ ~WatcherReturned(c) /\ s \in WatchedSignals)]
    /\ UNCHANGED logVars
    /\ relayed' = (relayed \/ (s \notin WatchedSignals /\
                                 \E b \in Calls : Notify(b, s) # sigBuf[b]))
    /\ arrived' = [b \in Calls |->
          IF hist /\ lpc[b] # "off" /\ s \in WatchedSignals
            THEN Min(arrived[b] + 1, MaxArrivals)
            ELSE arrived[b]]
    /\ UNCHANGED <<cancelCh, onceDone, onceMu, pc, opt, ctx, wpc, wch, parentDone,
                   lpc, hist, events>>

CancelNext ==
    \/ \E c \in Calls, o \in Opts : CancelContext(c, o)
    \/ \E c \in Calls : OnceDo(c)
    \/ \E c \in Calls : makeCancelCh(c)
    \/ \E c \in Calls : Derive(c)
    \/ \E c \in Calls : CallerCancel(c)
    \/ ParentCancel
    \/ \E c \in Calls : WatcherSelect(c)
    \/ \E c \in Calls : WatcherCancelArm(c)
    \/ \E c \in Calls : WatcherDoneArm(c)
    \/ \E b \in Calls : ListenerRecv(b)
    \/ \E s \in Signals : Signal(s)

----------------------------------------------------------------------------
\* The logging lifecycle: RootOptions.LogfilePreRun and LogfilePostRun.

\* ---- bounds ----
MaxSetups == 2       \* calls of LogfilePreRun that open the log file

\* ---- program constants ----
MinLogLevel == 0     \* "(valid 1-9, default is 0)"
MaxLogLevel == 9
StderrThreshold == 4 \* fsv2.Set("stderrthreshold", "4")

Handles == 1..MaxSetups

\* The values the --verbose flag is given: the documented range and one value
\* on either side of it.
LogLevels == (MinLogLevel - 1)..(MaxLogLevel + 1)

\* klog's severities: INFO, WARNING, ERROR (FATAL ends the process).
Severities == 0..2

\* Sinks: the streams the caller put into o.IOStreams, and the log file
\* handles.
Stream(n) == [kind |-> n, h |-> 0]
File(h)   == [kind |-> "file", h |-> h]

\* io.MultiWriter(w, logFile): a write goes to the sinks of w, then to the
\* file.
MultiWriter(w, h) == w \o <<File(h)>>

\* A write to a sink fails when it is a closed file handle.
WriteFails(sink) == sink.kind = "file" /\ fileState[sink.h] # "open"

\* The sinks a write to writer w is appended to: io.MultiWriter writes to its
\* writers in order and stops at the first that returns an error.
RECURSIVE Reached(_)
Reached(w) ==
    IF w = <<>> THEN {}
    ELSE IF WriteFails(Head(w)) THEN {}
    ELSE {Head(w)} \cup Reached(Tail(w))

SinksOf(w) == {w[i] : i \in 1..Len(w)}

\* Faulty variant: the switch without its case 2.
LogrusLevelNoCase2(v) ==
    CASE v = 0 -> "info"
      [] v = 1 -> "debug"
      [] OTHER -> "trace"

\* The switch of LogfilePreRun on o.LogLevel.
LogrusLevel(v) ==
    CASE v = 0 -> "info"
      [] v = 1 -> "debug"
      [] v = 2 -> "debug"
      [] OTHER -> "trace"

\* The formatter given to the hook on the error stream.
HookFormatter ==
    [DisableTimestamp |-> FALSE, DisableLevelTruncation |-> TRUE, DisableQuote |-> TRUE]

\* Faulty variant: klog.SetOutput(logFile)
KlogOutputFileOnly(h) == <<File(h)>>

\* klog.SetOutput(io.MultiWriter(o.IOStreams.Out, logFile))
KlogOutput(h) == MultiWriter(Out, h)

\* The flags LogfilePreRun sets on klog.
KlogFlags ==
    [klog EXCEPT !.stderrthreshold = StderrThreshold,
                 !.skip_headers = TRUE,
                 !.logtostderr = FALSE,
                 !.alsologtostderr = FALSE,
                 !.v = LogLevel]

\* Faulty variant: ErrOut bound to the fan-out of Out.
NewErrOutFromOut(h) == MultiWriter(Out, h)

\* The o.IOStreams LogfilePreRun stores.
NewIn == In
NewOut(h) == MultiWriter(Out, h)
NewErrOut(h) == MultiWriter(ErrOut, h)

NoLine == [stderr |-> FALSE, sinks |-> {}]

LogInit ==
    /\ LogLevel \in LogLevels
    /\ In = Stream("in")
    /\ Out = <<Stream("out")>>
    /\ ErrOut = <<Stream("err")>>
    /\ logfileCleanup = 0
    /\ fileState = [h \in Handles |-> "unopened"]
    /\ klog = [logtostderr |-> TRUE, alsologtostderr |-> FALSE, stderrthreshold |-> 2,
               skip_headers |-> FALSE, v |-> 0, out |-> <<>>]
    /\ logrus = [out |-> "stderr", level |-> "info", hooks |-> <<>>]
    /\ fileHook = [h \in Handles |-> "none"]
    /\ fatal = ""
    /\ closeCalls = [h \in Handles |-> 0]
    /\ pre = [In |-> Stream("in"), Out |-> <<>>, ErrOut |-> <<>>]
    /\ cleanupLog = <<>>
    /\ last = [op |-> "none", line |-> NoLine]

\* The handle the next os.OpenFile returns.
NextHandle == Cardinality({h \in Handles : fileState[h] # "unopened"}) + 1

\* The klog flags LogfilePreRun sets, in the order it sets them.
FlagNames == <<"stderrthreshold", "skip_headers", "logtostderr", "alsologtostderr", "v">>

\* klog when fsv2.Set fails on the i-th flag: the flags before it are set.
KlogFlagsBefore(i) ==
    [klog EXCEPT !.stderrthreshold = IF i > 1 THEN StderrThreshold ELSE @,
                 !.skip_headers = IF i > 2 THEN TRUE ELSE @,
                 !.logtostderr = IF i > 3 THEN FALSE ELSE @,
                 !.alsologtostderr = IF i > 4 THEN FALSE ELSE @]

\* Faulty variant: checkErr reports the error and lets the caller go on.
checkErrLogsOnly(err) == ""

\* checkErr(err): klog.Fatal(err) when err is not nil ("" stands for nil).
\* The result is the error the process ended with, "" when it goes on.
checkErr(err) == err

\* LogfilePreRun. flagFail is the flag on which fsv2.Set returns an error (0
\* when none does), openOK is whether os.OpenFile succeeds. On a flag error
\* checkErr ends the process, the flags before it having been set; when the
\* open fails klog.Fatal ends the process, all flags having been set.
\* setupFileHook is defined outside this file: it installs a file hook for
\* logFile and returns the function that disposes of it.
LogfilePreRun(flagFail, openOK) ==
    /\ fatal = ""
    /\ NextHandle \in Handles
    /\ IF flagFail # 0 /\ checkErr("flag") # ""
         THEN /\ klog' = KlogFlagsBefore(flagFail)
              /\ fatal' = checkErr("flag")
              /\ last' = [op |-> "PreRunFlagFail", line |-> NoLine]
              /\ UNCHANGED <<In, Out, ErrOut, logfileCleanup, fileState, logrus,
                             fileHook, pre>>
         ELSE IF ~openOK
         THEN /\ klog' = KlogFlags
              /\ fatal' = "open"
              /\ last' = [op |-> "PreRunOpenFail", line |-> NoLine]
              /\ UNCHANGED <<In, Out, ErrOut, logfileCleanup, fileState, logrus,
                             fileHook, pre>>
         ELSE LET h == NextHandle IN
              /\ fileState' = [fileState EXCEPT ![h] = "open"]
              /\ klog' = [KlogFlags EXCEPT !.out = KlogOutput(h)]
              /\ logrus' = [out |-> "discard",
                            level |-> LogrusLevel(LogLevel),
                            hooks |-> Append(logrus.hooks,
                                             [w |-> ErrOut,
                                              level |-> LogrusLevel(LogLevel),
                                              formatter |-> HookFormatter])]
              /\ fileHook' = [fileHook EXCEPT ![h] = "installed"]
              /\ pre' = [In |-> In, Out |-> Out, ErrOut |-> ErrOut]
              /\ In' = NewIn
              /\ Out' = NewOut(h)
              /\ ErrOut' = NewErrOut(h)
              /\ logfileCleanup' = h
              /\ last' = [op |-> IF flagFail # 0 THEN "PreRunFlagFail" ELSE "PreRun",
                          line |-> NoLine]
              /\ UNCHANGED fatal
    /\ UNCHANGED <<LogLevel, closeCalls, cleanupLog>>
    /\ UNCHANGED cancelVars

\* logrusCleanup, the function setupFileHook(logFile) returned: it disposes
\* of the file hook of log file handle h.
logrusCleanup(h) == [fileHook EXCEPT ![h] = "disposed"]

CleanupStep(name, open) == [step |-> name, open |-> open]

\* Faulty variant: the closure closes the log file first.
logfileCleanupCloseFirst(h) ==
    /\ closeCalls' = [closeCalls EXCEPT ![h] = closeCalls[h] + 1]
    /\ IF fileState[h] = "open"
         THEN /\ fileState' = [fileState EXCEPT ![h] = "closed"]
              /\ fileHook' = logrusCleanup(h)
              /\ cleanupLog' = <<CleanupStep("logFile.Close", TRUE),
                                 CleanupStep("klog.Flush", FALSE),
                                 CleanupStep("logrusCleanup", FALSE)>>
              /\ UNCHANGED fatal
         ELSE /\ fatal' = checkErr("close")
              /\ cleanupLog' = <<CleanupStep("logFile.Close", FALSE)>>
              /\ UNCHANGED <<fileState, fileHook>>

\* The closure LogfilePreRun stored, for log file handle h: klog.Flush() (klog
\* holds no buffer for a writer given to SetOutput), logrusCleanup(), and
\* checkErr(logFile.Close()), where Close of a closed file returns an error.
logfileCleanupFunc(h) ==
    LET open == fileState[h] = "open" IN
    /\ cleanupLog' = <<CleanupStep("klog.Flush", open),
                       CleanupStep("logrusCleanup", open),
                       CleanupStep("logFile.Close", open)>>
    /\ fileHook' = logrusCleanup(h)
    /\ closeCalls' = [closeCalls EXCEPT ![h] = closeCalls[h] + 1]
    /\ IF open
         THEN /\ fileState' = [fileState EXCEPT ![h] = "closed"]
              /\ UNCHANGED fatal
         ELSE /\ fatal' = checkErr("close")
              /\ UNCHANGED fileState

\* Faulty variant: LogfilePostRun without the nil test: calling a nil func panics.
LogfilePostRunNoNilTest ==
    /\ fatal = ""
    /\ IF logfileCleanup = 0
         THEN /\ fatal' = "panic"
              /\ UNCHANGED <<fileState, fileHook, closeCalls, cleanupLog>>
         ELSE logfileCleanupFunc(logfileCleanup)
    /\ last' = [op |-> "PostRun", line |-> NoLine]
    /\ UNCHANGED <<LogLevel, In, Out, ErrOut, logfileCleanup, klog, logrus, pre>>
    /\ UNCHANGED cancelVars

\* LogfilePostRun: if o.logfileCleanup != nil { o.logfileCleanup() }
LogfilePostRun ==
    /\ fatal = ""
    /\ IF logfileCleanup = 0
         THEN UNCHANGED <<fileState, fileHook, fatal, closeCalls, cleanupLog>>
         ELSE logfileCleanupFunc(logfileCleanup)
    /\ last' = [op |-> "PostRun", line |-> NoLine]
    /\ UNCHANGED <<LogLevel, In, Out, ErrOut, logfileCleanup, klog, logrus, pre>>
    /\ UNCHANGED cancelVars

\* What klog does with a line of severity s: to os.Stderr when logtostderr is
\* set; otherwise to os.Stderr when alsologtostderr is set or s reaches the
\* threshold, and to the writer given to SetOutput.
KlogLine(s) ==
    IF klog.logtostderr
      THEN [stderr |-> TRUE, sinks |-> {}]
      ELSE [stderr |-> klog.alsologtostderr \/ s >= klog.stderrthreshold,
            sinks |-> Reached(klog.out)]

\* The program logs a line of severity s through klog.
KlogEmit(s) ==
    /\ fatal = ""
    /\ last' = [op |-> "klog", line |-> KlogLine(s)]
    /\ UNCHANGED <<LogLevel, In, Out, ErrOut, logfileCleanup, fileState, klog,
                   logrus, fileHook, fatal, closeCalls, pre, cleanupLog>>
    /\ UNCHANGED cancelVars

\* The program writes a line to o.IOStreams.Out.
WriteOut ==
    /\ fatal = ""
    /\ last' = [op |-> "Out", line |-> [stderr |-> FALSE, sinks |-> Reached(Out)]]
    /\ UNCHANGED <<LogLevel, In, Out, ErrOut, logfileCleanup, fileState, klog,
                   logrus, fileHook, fatal, closeCalls, pre, cleanupLog>>
    /\ UNCHANGED cancelVars

\* The program writes a line to o.IOStreams.ErrOut.
WriteErrOut ==
    /\ fatal = ""
    /\ last' = [op |-> "ErrOut", line |-> [stderr |-> FALSE, sinks |-> Reached(ErrOut)]]
    /\ UNCHANGED <<LogLevel, In, Out, ErrOut, logfileCleanup, fileState, klog,
                   logrus, fileHook, fatal, closeCalls, pre, cleanupLog>>
    /\ UNCHANGED cancelVars

LogNext ==
    \/ \E flagFail \in 0..Len(FlagNames), openOK \in BOOLEAN :
          LogfilePreRun(flagFail, openOK)
    \/ LogfilePostRun
    \/ \E s \in Severities : KlogEmit(s)
    \/ WriteOut
    \/ WriteErrOut

----------------------------------------------------------------------------
\* The two components share no state. Each is checked with the other at rest;
\* Spec is the whole program.
Init == CancelInit /\ hist = FALSE /\ LogInit

Next == CancelNext \/ LogNext

Spec == Init /\ [][Next]_vars

LogSpec == Init /\ [][LogNext]_vars

CancelSpecInit == CancelInit /\ hist = FALSE /\ LogInit /\ LogLevel = 0

CancelHistInit == CancelInit /\ hist = TRUE /\ LogInit /\ LogLevel = 0

\* The scheduler runs every goroutine that can take a step: the callers inside
\* CancelContext, the listeners and the watchers. Signals, the caller's cancel
\* and the parent's cancellation come from outside and need not happen.
CancelFairness ==
    /\ \A c \in Calls : WF_vars(OnceDo(c))
    /\ \A c \in Calls : WF_vars(makeCancelCh(c))
    /\ \A c \in Calls : WF_vars(Derive(c))
    /\ \A c \in Calls : WF_vars(WatcherSelect(c))
    /\ \A c \in Calls : WF_vars(WatcherCancelArm(c))
    /\ \A c \in Calls : WF_vars(WatcherDoneArm(c))
    /\ \A b \in Calls : WF_vars(ListenerRecv(b))

CancelSpec == CancelSpecInit /\ [][CancelNext]_vars

CancelHistSpec == CancelHistInit /\ [][CancelNext]_vars

CancelFairSpec == CancelHistSpec /\ CancelFairness

\* The scheduler runs every watcher goroutine that can take a step: nothing
\* is assumed of the callers or the listeners, and no history is recorded.
WatcherFairness ==
    /\ \A c \in Calls : WF_vars(WatcherSelect(c))
    /\ \A c \in Calls : WF_vars(WatcherDoneArm(c))

CancelLiveSpec == CancelSpec /\ WatcherFairness

----------------------------------------------------------------------------
\* Claims about the signal-to-cancellation bridge.

\* The signal registrations (calls of makeCancelCh) made through options o.
Registrations(o) == {b \in Calls : lpc[b] # "off" /\ opt[b] = o}
AllRegistrations == {b \in Calls : lpc[b] # "off"}

\* C1: a context derived by CancelContext that receives a watched signal after
\* its derivation eventually becomes done (when its parent is cancelled or its
\* cancel function is called it is done as well, so the statement needs no
\* exception for them).
C1_SignalEventuallyCancels ==
    \A c \in Calls : sigAfter[c] ~> ctxDone(c)

\* C2: when two contexts derived from the same options are live at the moment
\* a watched signal is received, both eventually become done.
C2_SignalCancelsEveryLiveContext ==
    \A c1, c2 \in Calls :
        (/\ c1 # c2 /\ opt[c1] = opt[c2]
         /\ sigAfter[c1] /\ sigAfter[c2]
         /\ ctx[c1] = "active" /\ ctx[c2] = "active")
        ~> (ctxDone(c1) /\ ctxDone(c2))

\* C3: once the parent context is cancelled, every context derived from it is
\* done (whether or not a signal arrived or the caller called cancel).
C3_ParentPropagation ==
    \A c \in Calls : (derived(c) /\ parentDone) => ctxDone(c)

\* A context cancelled by its parent while no signal is pending anywhere and
\* the caller has not called cancel.
C3_Witness ==
    \E c \in Calls :
        /\ ctx[c] = "parent" /\ wpc[c] = "doneArm"
        /\ \A b \in Calls : sigBuf[b] = 0 /\ lpc[b] # "send"

\* C4: whatever the interleaving of the calls of CancelContext on one
\* MirrorOptions, makeCancelCh runs at most once for it, exactly once before
\* any call gets past once.Do, and every watcher's select reads the one
\* assigned channel, never the nil channel.
C4_IdempotentInit ==
    /\ \A o \in Opts : Cardinality(Registrations(o)) <= 1
    /\ \A c \in Calls :
          pc[c] \in {"derive", "ret"} =>
             /\ Cardinality(Registrations(opt[c])) = 1
             /\ cancelCh[opt[c]] \in Registrations(opt[c])
    /\ \A c \in Calls :
          wpc[c] \in {"select", "cancelArm", "doneArm"} =>
             /\ wch[c] # 0
             /\ wch[c] \in Registrations(opt[c])
    /\ \A c1, c2 \in Calls :
          (/\ opt[c1] = opt[c2]
           /\ wpc[c1] \in {"select", "cancelArm", "doneArm"}
           /\ wpc[c2] \in {"select", "cancelArm", "doneArm"})
          => wch[c1] = wch[c2]

\* Two calls raced on one MirrorOptions: the call that started second ran
\* o.init, and the watchers of both read its channel.
C4_Witness ==
    /\ opt[1] = opt[2]
    /\ wpc[1] = "select" /\ wpc[2] = "select"
    /\ wch[1] = 2 /\ wch[2] = 2

----------------------------------------------------------------------------
\* Claims about the logging lifecycle.

\* The program state of the logging lifecycle (the history left out).
logState == <<LogLevel, In, Out, ErrOut, logfileCleanup, fileState, klog, logrus,
              fileHook, fatal>>

\* A setup succeeded, no teardown has run since the process started, and the
\* process runs.
Active ==
    /\ logfileCleanup # 0
    /\ fatal = ""
    /\ \A h \in Handles : fileState[h] # "closed"

\* C6: whatever the sequence of setups and teardowns, no cleanup closure is
\* called more than once and no teardown ends in a fatal close error.
C6_DoubleTeardownSafe ==
    /\ fatal # "close"
    /\ \A h \in Handles : closeCalls[h] <= 1

\* C7: a LogfilePostRun on options on which no LogfilePreRun has run changes
\* nothing: no error, and streams, loggers, log file and cleanup closure are
\* as they were.
C7_TeardownWithoutSetup ==
    [][(LogfilePostRun /\ \A h \in Handles : fileState[h] = "unopened")
         => UNCHANGED logState]_vars

\* A teardown has just run on options that were never set up.
C7_Witness ==
    /\ last.op = "PostRun"
    /\ \A h \in Handles : fileState[h] = "unopened"
    /\ logfileCleanup = 0

\* C8: after a setup with verbosity v in 0..9 the level of logrus is info for
\* v = 0, debug for v = 1 and v = 2, trace for v >= 3, and the hook the setup
\* added has the same level.
C8_SeverityMapping ==
    (logfileCleanup # 0 /\ LogLevel \in MinLogLevel..MaxLogLevel) =>
        LET expected == IF LogLevel = 0 THEN "info"
                        ELSE IF LogLevel \in {1, 2} THEN "debug"
                        ELSE "trace"
        IN  /\ logrus.level = expected
            /\ logrus.hooks[Len(logrus.hooks)].level = expected

\* A setup has run with verbosity 2.
C8_Witness ==
    /\ logfileCleanup # 0
    /\ LogLevel = 2
    /\ logrus.level = "debug"

C10_StreamRebinding ==
    logfileCleanup # 0 =>
        LET f == File(logfileCleanup) IN
        /\ Out = pre.Out \o <<f>>
        /\ ErrOut = pre.ErrOut \o <<f>>
        /\ In = pre.In
        /\ (last.op = "Out" /\ Active) => last.line.sinks = SinksOf(pre.Out) \cup {f}
        /\ (last.op = "ErrOut" /\ Active) => last.line.sinks = SinksOf(pre.ErrOut) \cup {f}

\* A line written to o.IOStreams.ErrOut after a second setup.
C10_Witness ==
    /\ last.op = "ErrOut" /\ Active
    /\ logfileCleanup = 2
    /\ last.line.sinks = {Stream("err"), File(1), File(2)}

\* C11: the hook a successful setup adds to logrus writes to the error stream
\* o.IOStreams held before the rebinding, at the level resolved from the
\* verbosity, and its formatter has timestamps disabled, level truncation
\* disabled and field quoting disabled.
C11_HookFormat ==
    logfileCleanup # 0 =>
        LET hook == logrus.hooks[Len(logrus.hooks)] IN
        /\ hook.w = pre.ErrOut
        /\ hook.level = LogrusLevel(LogLevel)
        /\ hook.formatter.DisableTimestamp
        /\ hook.formatter.DisableLevelTruncation
        /\ hook.formatter.DisableQuote

\* C12: a setup in which setting a klog flag or opening the log file fails
\* ends the process there, in a fatal error, and the later steps of the setup
\* have no effect: the output of klog is not redirected, o.IOStreams is not
\* rebound, no cleanup closure is stored, no hook is added and no file is
\* opened; a process that ended takes no further step.
C12_FatalSetupErrors ==
    [][/\ fatal = ""
       /\ last'.op \in {"PreRunFlagFail", "PreRunOpenFail"} =>
            /\ fatal' = (IF last'.op = "PreRunFlagFail" THEN "flag" ELSE "open")
            /\ klog'.out = klog.out
            /\ UNCHANGED <<In, Out, ErrOut, logfileCleanup, logrus, fileHook,
                           fileState>>]_vars

\* After one successful setup, a second setup failed on a flag: the process
\* ended with the streams and the closure of the first setup, and no second
\* file was opened.
C12_Witness ==
    /\ last.op = "PreRunFlagFail"
    /\ fatal = "flag"
    /\ logfileCleanup = 1
    /\ fileState[2] = "unopened"
    /\ klog.out = <<Stream("out"), File(1)>>

\* C13: the watcher of a derived context takes exactly one arm of its select
\* and has then returned for good: by the cancel arm it has received exactly
\* one bridge event, by the done arm none and its context is done; it never
\* receives a second event; and once the context is done (by the caller, the
\* parent or a signal) the watcher eventually returns: a done context and a
\* returned watcher stay so, hence no watcher stays blocked after its context
\* is done exactly when, again and again, every done context has a watcher
\* that returned.
C13_WatcherGuarantee ==
    /\ [](\A c \in Calls :
            /\ events[c] <= 1
            /\ wpc[c] = "cancelArm" <=> events[c] = 1
            /\ wpc[c] = "doneArm" => ctxDone(c))
    /\ [][\A c \in Calls :
            WatcherReturned(c) => wpc'[c] = wpc[c] /\ events'[c] = events[c]]_vars
    /\ []<>(\A c \in Calls : ctxDone(c) => WatcherReturned(c))

\* Both arms taken in one run: the caller cancelled context 1 and its watcher
\* returned by the done arm; the watcher of context 2 received an event.
C13_Witness ==
    /\ ctx[1] = "cancel" /\ wpc[1] = "doneArm" /\ events[1] = 0
    /\ ctx[2] = "signal" /\ wpc[2] = "cancelArm" /\ events[2] = 1

\* C14: a derived context is done only by a legitimate cause. A context
\* becomes done only in a step in which the caller holding its cancel function
\* cancels it, or its parent is (or gets) cancelled, or its watcher receives
\* an event from the listener of its bridge; a listener has an event to send
\* only after taking a signal out of signalCh; and no signal other than
\* SIGINT and SIGTERM is ever put into a signalCh, so an unwatched signal
\* produces no event and makes no context done.
C14_OnlyLegitimateCauses ==
    /\ [](~relayed)
    /\ [](\A c \in Calls :
            /\ ctx[c] = "cancel" => pc[c] = "ret"
            /\ ctx[c] = "parent" => parentDone
            /\ ctx[c] = "signal" => events[c] = 1 /\ wch[c] \in Registrations(opt[c]))
    /\ [][\A c \in Calls :
            (~ctxDone(c) /\ ctxDone(c)') =>
               \/ ctx'[c] = "cancel" /\ pc[c] = "ret"
               \/ ctx'[c] = "parent" /\ parentDone'
               \/ /\ ctx'[c] = "signal"
                  /\ lpc[wch[c]] = "send" /\ lpc'[wch[c]] = "recv"
                  /\ events'[c] = events[c] + 1]_vars
    /\ [][\A b \in Calls :
            (lpc[b] # "send" /\ lpc'[b] = "send") =>
               sigBuf[b] > 0 /\ sigBuf'[b] = sigBuf[b] - 1]_vars
    /\ [][\A b \in Calls :
            sigBuf'[b] > sigBuf[b] => lpc[b] # "off" /\ ctx' = ctx /\ lpc' = lpc]_vars

\* One context cancelled by a signal, the other by its caller.
C14_Witness ==
    /\ ctx[1] = "signal" /\ events[1] = 1
    /\ ctx[2] = "cancel" /\ events[2] = 0
    /\ ~relayed

\* The events of bridge b: those its listener holds or will still make of a
\* buffered signal, and those the watchers have received from it.
Pending(b) == sigBuf[b] + (IF lpc[b] = "send" THEN 1 ELSE 0)
Emitted(b) == Cardinality({c \in Calls : wch[c] = b /\ events[c] >= 1})

\* C15: the bridge neither drops nor coalesces a signal: of the k watched
\* signals received since its registration every one is an event a watcher
\* has received or an event still to be delivered (buffered in signalCh or
\* held by the listener), also when several arrive before the previous event
\* is consumed.
C15_NoSignalDropped ==
    \A b \in Calls :
        (lpc[b] # "off" /\ arrived[b] < MaxArrivals) =>
            arrived[b] = Pending(b) + Emitted(b)

\* C16: a teardown that runs the cleanup closure performs klog.Flush, the
\* disposal of the file hook and the close of the log file, in that order.
\* When it is the first teardown of that setup, the flush and the disposal
\* happened while the file was open, the hook is disposed of, the handle is
\* closed when the teardown returns and the process goes on; when the close
\* fails (the handle was closed already) the process ends in a fatal error.
C16_CleanupOrder ==
    (last.op = "PostRun" /\ logfileCleanup # 0) =>
        LET h == logfileCleanup IN
        /\ [i \in 1..Len(cleanupLog) |-> cleanupLog[i].step]
              = <<"klog.Flush", "logrusCleanup", "logFile.Close">>
        /\ fileHook[h] = "disposed"
        /\ fileState[h] = "closed"
        /\ closeCalls[h] = 1 =>
              /\ \A i \in 1..Len(cleanupLog) : cleanupLog[i].open
              /\ fatal = ""
        /\ closeCalls[h] > 1 => fatal = "close"

\* The teardown that follows one successful setup has returned.
C16_Witness ==
    /\ last.op = "PostRun"
    /\ logfileCleanup = 1
    /\ closeCalls[1] = 1
    /\ fileState = [h \in Handles |-> IF h = 1 THEN "closed" ELSE "unopened"]
    /\ Len(cleanupLog) = 3

\* C17: no log file handle leaks: whenever a teardown has just returned, every
\* handle a setup opened before it is closed, also when two setups ran without
\* a teardown between them.
C17_NoHandleLeak ==
    (last.op = "PostRun" /\ fatal = "") =>
        \A h \in Handles : fileState[h] # "open"

\* C18: no stale cancellation: a context cancelled by its watcher's cancel arm
\* was derived before a watched signal was received; a signal received before
\* the derivation (buffered in signalCh, or held by the listener blocked on
\* resultCh) never cancels it.
C18_NoStaleCancellation ==
    \A c \in Calls : ctx[c] = "signal" => sigAfter[c]

\* C19: no event is swallowed by a finished context: a watcher receives a
\* bridge event only while its context is live, so the context of every
\* watcher that returned by the cancel arm was cancelled by that event, not
\* before it by its caller or its parent.
C19_NoEventSwallowed ==
    \A c \in Calls : wpc[c] = "cancelArm" => ctx[c] = "signal"

====
